---- MODULE Spec2Model ----
(***************************************************************************)
(* Model of src/native/compute_statistics.cc: main() scans every patient   *)
(* of a PatientDatabase, counts per patient the events whose decoded code  *)
(* does not start with "STANFORD_OBS", accumulates the counts in the       *)
(* histogram length_counts and streams json(length_counts) to a file.      *)
(*                                                                         *)
(* Integers: valid_events, patient_id and the histogram cells are uint32_t *)
(* in the source.  All values of the model stay far below 2^32, so the     *)
(* wrap-around is never exercised and plain integers are used.             *)
(***************************************************************************)
EXTENDS Integers, Sequences, FiniteSets, TLC

VARIABLES
    db,             \* database: sequence of patients, each a sequence of event codes
    dict,           \* code dictionary: sequence of strings, code c is dict[c + 1]
    pc,             \* position of main()
    patient_id,     \* outer loop variable
    ev,             \* position of the range-for over p.events (1-based)
    valid_events,   \* per-patient counter
    has_ip,         \* marker flag of the current patient
    length_counts,  \* the histogram
    cout,           \* what was printed to std::cout
    o_state,        \* state of the std::ofstream o
    file_touched,   \* the destination was opened (created / truncated)
    file_content,   \* sequence of JSON values the destination holds
    exit_code       \* process exit status, -1 while running

vars == <<db, dict, pc, patient_id, ev, valid_events, has_ip, length_counts,
          cout, o_state, file_touched, file_content, exit_code>>

----------------------------------------------------------------------------
(* Bounds of the model *)

MaxPatients == 2
MaxTotalEvents == 3

(* Program constants *)

MarkerCode == 580

target == <<"S", "T", "A", "N", "F", "O", "R", "D", "_", "O", "B", "S">>

----------------------------------------------------------------------------
(* Inputs: strings are sequences of characters *)

StrObsA == target \o <<"_", "A">>
StrX == <<"X">>
StrShort == SubSeq(target, 1, Len(target) - 1)
StrVisit == <<"V", "i", "s", "i", "t", "/", "I", "P">>
StrOther == <<"Y">>

\* codes 0, 1, 2 only: the marker code is out of range
DictSmall == <<StrObsA, StrX, StrShort>>

\* codes 0 .. MarkerCode
DictLarge ==
    [i \in 1..(MarkerCode + 1) |->
        CASE i = 1 -> StrObsA
          [] i = 2 -> StrX
          [] i = 3 -> StrShort
          [] i = MarkerCode + 1 -> StrVisit
          [] OTHER -> StrOther]

Dictionaries == {DictSmall, DictLarge}

Codes == {0, 1, 2, MarkerCode}

\* the databases of exactly n patients holding at most t events in total
RECURSIVE DatabasesOf(_, _)
DatabasesOf(n, t) ==
    IF n = 0 THEN {<<>>}
    ELSE UNION {{<<p>> \o rest : p \in [1..j -> Codes],
                                 rest \in DatabasesOf(n - 1, t - j)} : j \in 0..t}

Databases == UNION {DatabasesOf(n, MaxTotalEvents) : n \in 0..MaxPatients}

Min(a, b) == IF a <= b THEN a ELSE b

----------------------------------------------------------------------------
(* Collaborators *)

\* Dictionary::operator[]: fails on an id without an entry
Lookup(d, code) ==
    IF code < Len(d)
    THEN [ok |-> TRUE, str |-> d[code + 1]]
    ELSE [ok |-> FALSE, str |-> <<>>]

\* std::string_view::substr(0, n): at most n characters, the whole string if shorter
Substr0(s, n) == SubSeq(s, 1, Min(n, Len(s)))

----------------------------------------------------------------------------
(* The body of main() *)

\* line 30: the event counts unless the window of the code string equals target
IsValidGeneralStartsWith(code_str) ==
    LET n == Min(Len(target), Len(code_str))
    IN  SubSeq(code_str, 1, n) # SubSeq(target, 1, n)

IsValidWholeString(code_str) == code_str # target

IsValid(code_str) == Substr0(code_str, Len(target)) # target

\* lines 29-35: one iteration of the loop over p.events
EventStepStopAtMarker(acc, code, code_str) ==
    [valid_events |-> IF IsValid(code_str) /\ ~acc.has_ip
                      THEN acc.valid_events + 1 ELSE acc.valid_events,
     has_ip |-> acc.has_ip \/ code = MarkerCode]

EventStep(acc, code, code_str) ==
    [valid_events |-> IF IsValid(code_str)
                      THEN acc.valid_events + 1 ELSE acc.valid_events,
     has_ip |-> acc.has_ip \/ code = MarkerCode]

\* line 38: the condition of the marker-code gate
GateExcludesEnabled(ip) == ~ip

GateExcludes(ip) == FALSE /\ ~ip

\* line 47: operator[] inserts a value-initialised cell when the key is absent
IncrementAssignOne(hist, k) ==
    LET h0 == IF k \in DOMAIN hist THEN hist ELSE hist @@ (k :> 0)
    IN  [h0 EXCEPT ![k] = 1]

IncrementInsertOnly(hist, k) ==
    IF k \in DOMAIN hist THEN [hist EXCEPT ![k] = @ + 1] ELSE hist @@ (k :> 0)

Increment(hist, k) ==
    LET h0 == IF k \in DOMAIN hist THEN hist ELSE hist @@ (k :> 0)
    IN  [h0 EXCEPT ![k] = @ + 1]

\* line 15: an empty flat_hash_map
EmptyHist == [k \in {} |-> 0]

\* line 53: json(length_counts).  The key type uint32_t cannot construct a
\* JSON string, so the map is not a compatible object type; it is converted
\* as a range of std::pair, each pair becoming a two-element array.  The
\* iteration order of a flat_hash_map is unspecified: order is any
\* enumeration of the keys.
Orderings(S) ==
    {s \in [1..Cardinality(S) -> S] : \A i, j \in DOMAIN s : i # j => s[i] # s[j]}

Json(hist, order) ==
    [kind |-> "array",
     items |-> [i \in 1..Len(order) |-> <<order[i], hist[order[i]]>>]]

----------------------------------------------------------------------------
Init ==
    /\ db \in Databases
    /\ dict \in Dictionaries
    /\ pc = "init"
    /\ patient_id = 0
    /\ ev = 1
    /\ valid_events = 0
    /\ has_ip = FALSE
    /\ length_counts = EmptyHist
    /\ cout = <<>>
    /\ o_state = "none"
    /\ file_touched = FALSE
    /\ file_content = <<>>
    /\ exit_code = -1

\* lines 11-21: open the database, create the histogram, patient_id = 0
StartScan ==
    /\ pc = "init"
    /\ pc' = "scanning"
    /\ patient_id' = 0
    /\ length_counts' = EmptyHist
    /\ UNCHANGED <<db, dict, ev, valid_events, has_ip, cout, o_state,
                   file_touched, file_content, exit_code>>

\* lines 21-28: loop condition true, fetch the patient, reset the locals
BeginPatient ==
    /\ pc = "scanning"
    /\ patient_id < Len(db)
    /\ pc' = "events"
    /\ valid_events' = 0
    /\ has_ip' = FALSE
    /\ ev' = 1
    /\ UNCHANGED <<db, dict, patient_id, length_counts, cout, o_state,
                   file_touched, file_content, exit_code>>

\* lines 28-36: one event; a failed lookup propagates out of main
ProcessEventSwallow ==
    /\ pc = "events"
    /\ ev <= Len(db[patient_id + 1])
    /\ LET code == db[patient_id + 1][ev]
           r == Lookup(dict, code)
           acc == EventStep([valid_events |-> valid_events, has_ip |-> has_ip],
                            code, r.str)
       IN  /\ valid_events' = IF r.ok THEN acc.valid_events ELSE valid_events
           /\ has_ip' = IF r.ok THEN acc.has_ip ELSE has_ip
           /\ ev' = ev + 1
           /\ UNCHANGED <<pc, exit_code>>
    /\ UNCHANGED <<db, dict, patient_id, length_counts, cout, o_state,
                   file_touched, file_content>>

ProcessEvent ==
    /\ pc = "events"
    /\ ev <= Len(db[patient_id + 1])
    /\ LET code == db[patient_id + 1][ev]
           r == Lookup(dict, code)
           acc == EventStep([valid_events |-> valid_events, has_ip |-> has_ip],
                            code, r.str)
       IN  IF r.ok
           THEN /\ valid_events' = acc.valid_events
                /\ has_ip' = acc.has_ip
                /\ ev' = ev + 1
                /\ UNCHANGED <<pc, exit_code>>
           ELSE /\ pc' = "aborted"
                /\ exit_code' = 134
                /\ UNCHANGED <<valid_events, has_ip, ev>>
    /\ UNCHANGED <<db, dict, patient_id, length_counts, cout, o_state,
                   file_touched, file_content>>

\* lines 38-48: gate, diagnostic print, histogram update, patient_id++
EndPatientSkipIndex ==
    /\ pc = "events"
    /\ ev > Len(db[patient_id + 1])
    /\ pc' = "scanning"
    /\ patient_id' = patient_id + 2
    /\ IF GateExcludes(has_ip)
       THEN UNCHANGED <<cout, length_counts>>
       ELSE /\ cout' = IF patient_id = 0 THEN Append(cout, valid_events) ELSE cout
            /\ length_counts' = Increment(length_counts, valid_events)
    /\ UNCHANGED <<db, dict, ev, valid_events, has_ip, o_state,
                   file_touched, file_content, exit_code>>

EndPatient ==
    /\ pc = "events"
    /\ ev > Len(db[patient_id + 1])
    /\ pc' = "scanning"
    /\ patient_id' = patient_id + 1
    /\ IF GateExcludes(has_ip)
       THEN UNCHANGED <<cout, length_counts>>
       ELSE /\ cout' = IF patient_id = 0 THEN Append(cout, valid_events) ELSE cout
            /\ length_counts' = Increment(length_counts, valid_events)
    /\ UNCHANGED <<db, dict, ev, valid_events, has_ip, o_state,
                   file_touched, file_content, exit_code>>

\* line 21: loop condition false
EndScan ==
    /\ pc = "scanning"
    /\ ~(patient_id < Len(db))
    /\ pc' = "finalizing"
    /\ UNCHANGED <<db, dict, patient_id, ev, valid_events, has_ip, length_counts,
                   cout, o_state, file_touched, file_content, exit_code>>

\* lines 50-52: std::ofstream o(path).  Opening truncates the destination;
\* when it cannot be opened the stream is in a failed state, nothing throws
OpenOutput ==
    /\ pc = "finalizing"
    /\ \E ok \in BOOLEAN :
          /\ o_state' = IF ok THEN "good" ELSE "fail"
          /\ file_touched' = ok
    /\ file_content' = <<>>
    /\ pc' = "writing"
    /\ UNCHANGED <<db, dict, patient_id, ev, valid_events, has_ip, length_counts,
                   cout, exit_code>>

\* line 53: o << json(length_counts).  A failed stream ignores the insertion;
\* a write error sets badbit, nothing throws
WriteOutput ==
    /\ pc = "writing"
    /\ IF o_state = "good"
       THEN \E ok \in BOOLEAN :
               IF ok
               THEN /\ \E order \in Orderings(DOMAIN length_counts) :
                          file_content' = <<Json(length_counts, order)>>
                    /\ UNCHANGED o_state
               ELSE /\ o_state' = "bad"
                    /\ UNCHANGED file_content
       ELSE UNCHANGED <<o_state, file_content>>
    /\ pc' = "closing"
    /\ UNCHANGED <<db, dict, patient_id, ev, valid_events, has_ip, length_counts,
                   cout, file_touched, exit_code>>

\* line 54: main falls off its end: the stream is destroyed, the status is 0
Return ==
    /\ pc = "closing"
    /\ pc' = "done"
    /\ exit_code' = 0
    /\ UNCHANGED <<db, dict, patient_id, ev, valid_events, has_ip, length_counts,
                   cout, o_state, file_touched, file_content>>

Next ==
    \/ StartScan
    \/ BeginPatient
    \/ ProcessEvent
    \/ EndPatient
    \/ EndScan
    \/ OpenOutput
    \/ WriteOutput
    \/ Return

Spec == Init /\ [][Next]_vars

\* main() is one sequential thread that runs whenever it can take a step
FairSpec == Spec /\ WF_vars(Next)

----------------------------------------------------------------------------
(* lines 21-48 as a function of the database and the dictionary: the same  *)
(* loop bodies, folded over the events of a patient and over the patients  *)

RECURSIVE ScanEvents(_, _, _, _)
ScanEvents(events, d, i, acc) ==
    IF i > Len(events)
    THEN [ok |-> TRUE, acc |-> acc]
    ELSE LET r == Lookup(d, events[i])
         IN  IF r.ok
             THEN ScanEvents(events, d, i + 1, EventStep(acc, events[i], r.str))
             ELSE [ok |-> FALSE, acc |-> acc]

RECURSIVE AggregateFrom(_, _, _, _)
AggregateFrom(database, d, i, hist) ==
    IF ~(i < Len(database))
    THEN [ok |-> TRUE, hist |-> hist]
    ELSE LET s == ScanEvents(database[i + 1], d, 1,
                             [valid_events |-> 0, has_ip |-> FALSE])
         IN  IF s.ok
             THEN AggregateFrom(database, d, i + 1,
                                IF GateExcludes(s.acc.has_ip)
                                THEN hist
                                ELSE Increment(hist, s.acc.valid_events))
             ELSE [ok |-> FALSE, hist |-> hist]

Aggregate(database, d) == AggregateFrom(database, d, 0, EmptyHist)

----------------------------------------------------------------------------
(* Vocabulary of the properties *)

Range(s) == {s[i] : i \in DOMAIN s}

RECURSIVE SumOver(_, _)
SumOver(h, S) ==
    IF S = {} THEN 0
    ELSE LET k == CHOOSE x \in S : TRUE IN h[k] + SumOver(h, S \ {k})

SumValues(h) == SumOver(h, DOMAIN h)

ScanFinished == pc \in {"finalizing", "writing", "closing", "done"}

AllCodesKnown ==
    \A p \in DOMAIN db : \A e \in DOMAIN db[p] : db[p][e] < Len(dict)

\* the first min(len(prefix), len(s)) characters of s are the prefix
WindowIsPrefix(s) ==
    LET n == Min(Len(target), Len(s))
    IN  /\ n = Len(target)
        /\ \A i \in 1..n : s[i] = target[i]

\* number of events of patient p (1-based) whose window differs from the prefix
ValidCount(p) ==
    Cardinality({e \in DOMAIN db[p] : ~WindowIsPrefix(dict[db[p][e] + 1])})

Perms(n) == {f \in [1..n -> 1..n] : \A i, j \in 1..n : i # j => f[i] # f[j]}

EventOrders(events) ==
    {[j \in 1..Len(events) |-> events[f[j]]] : f \in Perms(Len(events))}

RECURSIVE PatientwiseOrders(_, _)
PatientwiseOrders(database, n) ==
    IF n = 0 THEN {<<>>}
    ELSE {Append(s, e) : s \in PatientwiseOrders(database, n - 1),
                         e \in EventOrders(database[n])}

\* every database obtained by permuting the patients and, within each
\* patient, the events
Rearrangements(database) ==
    UNION {PatientwiseOrders([i \in 1..Len(database) |-> database[f[i]]],
                             Len(database)) : f \in Perms(Len(database))}

Digit(n) ==
    CASE n = 0 -> "0" [] n = 1 -> "1" [] n = 2 -> "2" [] n = 3 -> "3"
      [] n = 4 -> "4" [] n = 5 -> "5" [] n = 6 -> "6" [] n = 7 -> "7"
      [] n = 8 -> "8" [] n = 9 -> "9"

RECURSIVE Decimal(_)
Decimal(n) ==
    IF n < 10 THEN <<Digit(n)>> ELSE Append(Decimal(n \div 10), Digit(n % 10))

----------------------------------------------------------------------------
(* Properties *)

\* C1: once the scan has completed, the frequencies of the histogram sum to
\* database.size(), for every size including 0.
C1_SumIsSize == ScanFinished => SumValues(length_counts) = Len(db)

C1_Witness ==
    /\ pc = "done"
    /\ Len(db) >= 2
    /\ SumValues(length_counts) = Len(db)

\* C2: once the scan has completed, the histogram maps each count c to the
\* number of patients whose valid-event count is c, and a count that no
\* patient exhibits is not a key.
C2_HistogramIsExact ==
    ScanFinished =>
        /\ DOMAIN length_counts = {ValidCount(p) : p \in DOMAIN db}
        /\ \A c \in DOMAIN length_counts :
              length_counts[c] = Cardinality({p \in DOMAIN db : ValidCount(p) = c})

C2_Witness ==
    /\ pc = "done"
    /\ \E c \in DOMAIN length_counts : c >= 1 /\ length_counts[c] >= 2
    /\ \E p \in DOMAIN db : ValidCount(p) < Len(db[p])

\* C3: a processed event leaves the counter alone exactly when the first
\* min(len(prefix), len(code_str)) characters of its code string are the
\* prefix, and counts otherwise; a code string shorter than the prefix is
\* always counted.
C3_Classifier ==
    [][(pc = "events" /\ pc' = "events" /\ ev' = ev + 1) =>
          LET s == dict[db[patient_id + 1][ev] + 1]
          IN  /\ WindowIsPrefix(s) => valid_events' = valid_events
              /\ ~WindowIsPrefix(s) => valid_events' = valid_events + 1
              /\ Len(s) < Len(target) => valid_events' = valid_events + 1]_vars

C3_Witness ==
    /\ pc = "events"
    /\ ev = 2
    /\ dict[db[patient_id + 1][1] + 1] = StrShort
    /\ valid_events = 1

\* C4 (as claimed): what is written is one object whose keys are the decimal
\* strings of the counts and whose values are the frequencies, one member
\* per distinct count; an empty object for an empty database.
C4_WrittenIsObject ==
    file_content # <<>> =>
        LET j == file_content[1]
        IN  /\ j.kind = "object"
            /\ Len(j.items) = Cardinality(DOMAIN length_counts)
            /\ \A c \in DOMAIN length_counts :
                  \E i \in DOMAIN j.items :
                      j.items[i] = <<Decimal(c), length_counts[c]>>

\* C5: a database holding a code without dictionary entry never gets past
\* the scan and never touches the destination; whenever the destination
\* has been touched, every patient was scanned and every lookup succeeded.
C5_NoOutputAfterUnknownCode ==
    /\ ~AllCodesKnown => ~file_touched /\ ~ScanFinished /\ file_content = <<>>
    /\ file_touched => patient_id = Len(db) /\ AllCodesKnown
    /\ pc = "aborted" => exit_code # 0

C5_Witness ==
    /\ pc = "aborted"
    /\ patient_id >= 1
    /\ DOMAIN length_counts # {}
    /\ ~file_touched
    /\ exit_code # 0

\* C6 (as claimed): when the destination could not be created or written,
\* the run does not end in Done with a zero status.
C6_OutputFailureFails ==
    o_state \in {"fail", "bad"} => pc # "done" /\ exit_code # 0

\* C7: finishing a patient always folds that patient's count into the
\* histogram, whether or not the patient has the marker code.
C7_GateNeverFilters ==
    [][(pc = "events" /\ pc' = "scanning") =>
          /\ valid_events \in DOMAIN length_counts'
          /\ SumValues(length_counts') = SumValues(length_counts) + 1]_vars

C7_Witness ==
    /\ pc = "scanning"
    /\ patient_id >= 1
    /\ MarkerCode \notin Range(db[patient_id])
    /\ db[patient_id] # <<>>
    /\ SumValues(length_counts) = patient_id

\* C8: every key of the histogram has a frequency of at least 1, in every
\* state of the run and in what is written.
C8_NoZeroFrequency ==
    /\ \A k \in DOMAIN length_counts : length_counts[k] >= 1
    /\ \A n \in DOMAIN file_content :
          \A i \in DOMAIN file_content[n].items :
              file_content[n].items[i][2] >= 1

C8_Witness ==
    /\ file_content # <<>>
    /\ Len(file_content[1].items) >= 2

\* C9: the run is linear.  patient_id starts at 0 and grows by exactly 1
\* per patient, the finalizing phase is entered only from the loop head
\* with patient_id = size, every step moves strictly forward in
\* (phase, patient_id, position in the patient), and a run whose lookups
\* all succeed reaches Done.
Phase(p) ==
    CASE p = "init" -> 0
      [] p \in {"scanning", "events"} -> 1
      [] p = "finalizing" -> 2
      [] p = "writing" -> 3
      [] p = "closing" -> 4
      [] p = "done" -> 5
      [] p = "aborted" -> 6

Inner(p, e) == IF p = "events" THEN e ELSE 0

C9_StepForward ==
    /\ (pc = "init" => pc' = "scanning" /\ patient_id' = 0)
    /\ (patient_id' # patient_id => pc = "events" /\ patient_id' = patient_id + 1)
    /\ (pc' = "finalizing" => pc = "scanning" /\ patient_id = Len(db))
    /\ \/ Phase(pc') > Phase(pc)
       \/ Phase(pc') = Phase(pc) /\ patient_id' > patient_id
       \/ /\ Phase(pc') = Phase(pc)
          /\ patient_id' = patient_id
          /\ Inner(pc', ev') > Inner(pc, ev)

C9_LinearRun ==
    /\ [][C9_StepForward]_vars
    /\ [](patient_id <= Len(db))
    /\ (AllCodesKnown ~> pc = "done")

C9_Witness ==
    /\ pc = "done"
    /\ patient_id = Len(db)
    /\ Len(db) >= 2

\* C10: the histogram the completed scan hands to the writer is the one the
\* scan produces for every rearrangement of the database: patients
\* permuted, events permuted within each patient.
C10_OrderIndependent ==
    pc = "finalizing" =>
        \A db2 \in Rearrangements(db) :
            LET a == Aggregate(db2, dict)
            IN  a.ok /\ a.hist = length_counts

C10_Witness ==
    /\ pc = "finalizing"
    /\ Len(db) >= 2
    /\ db[1] # db[2]
    /\ \E p \in DOMAIN db : Len(db[p]) >= 2 /\ db[p][1] # db[p][2]
    /\ MarkerCode \in Range(db[1])

====
